---- MODULE Spec2Model ----
(***************************************************************************)
(* Model of src/main.rs: the demonstration program `main`, the nested      *)
(* function `print_padovan`, and the ownership tree of the values they     *)
(* construct.  A state holds NumRuns independent runs (processes) of the   *)
(* program; every variable is a function of the run.                       *)
(***************************************************************************)
EXTENDS Integers, Sequences, FiniteSets, TLC

VARIABLES pc, out, fmt, point, label, composers, temp, iter, owns, borrows,
          alloc, drops, padovan, rng, i, next, iters

vars == <<pc, out, fmt, point, label, composers, temp, iter, owns, borrows,
          alloc, drops, padovan, rng, i, next, iters>>

mainVars == <<point, label, composers, temp, iter>>
padVars == <<padovan, rng, i, next, iters>>
heapVars == <<owns, borrows, alloc, drops>>

\* Number of runs of the program held side by side in one state.
NumRuns == 2
Runs == 1..NumRuns

------------------------------------------------------------------------------
(* Text rendering: std::fmt Display for integers, Debug for f64, tuples    *)
(* and Vec, computed digit by digit.                                       *)

Digits == <<"0", "1", "2", "3", "4", "5", "6", "7", "8", "9">>
Digit(d) == Digits[d + 1]

RECURSIVE DecNat(_)
DecNat(n) == IF n < 10 THEN Digit(n) ELSE DecNat(n \div 10) \o Digit(n % 10)

\* Display / Debug of an i32.
DisplayI32(n) == IF n < 0 THEN "-" \o DecNat(0 - n) ELSE DecNat(n)

RECURSIVE Pow2(_)
Pow2(e) == IF e = 0 THEN 1 ELSE 2 * Pow2(e - 1)

\* The decimal digits of rem/den, 0 <= rem < den, den a power of two: the
\* expansion terminates, and for the short mantissas used here it is the
\* shortest text that reads back as the same f64.
RECURSIVE FracDigits(_, _)
FracDigits(rem, den) ==
    IF rem = 0 THEN ""
    ELSE Digit((rem * 10) \div den) \o FracDigits((rem * 10) % den, den)

\* Defective rendering: the zero before the point is left out (".625").
DebugF64NoZero(x) ==
    LET den == Pow2(x.e)
        ip == x.m \div den
        fr == x.m % den
    IN (IF ip = 0 THEN "" ELSE DecNat(ip)) \o "."
           \o (IF fr = 0 THEN "0" ELSE FracDigits(fr, den))

\* An f64 is held exactly as m / 2^e.  Debug prints the integer part, a
\* point, and the fraction digits (".0" when there are none).
DebugF64(x) ==
    LET den == Pow2(x.e)
        ip == x.m \div den
        fr == x.m % den
    IN DecNat(ip) \o "." \o (IF fr = 0 THEN "0" ELSE FracDigits(fr, den))

\* Debug of a 2-tuple: "(a, b)".
StdDebugPair(p) == "(" \o DebugF64(p[1]) \o ", " \o DebugF64(p[2]) \o ")"

\* The Debug implementation linked into the run.  "std" is the standard
\* library's; the others are defective formatters, used only by SpecFmt to
\* exercise the failing branch of assert_eq!.
Formatters == {"std", "nospace", "bare"}
DebugPair(f, p) ==
    CASE f = "std" -> StdDebugPair(p)
      [] f = "nospace" -> "(" \o DebugF64(p[1]) \o "," \o DebugF64(p[2]) \o ")"
      [] OTHER -> DebugF64(p[1]) \o ", " \o DebugF64(p[2])

RECURSIVE JoinI32(_)
JoinI32(s) ==
    IF s = << >> THEN ""
    ELSE IF Len(s) = 1 THEN DisplayI32(s[1])
    ELSE DisplayI32(s[1]) \o ", " \o JoinI32(Tail(s))

\* Debug of a Vec<i32>: "[a, b, c]".
DebugVecI32(s) == "[" \o JoinI32(s) \o "]"

------------------------------------------------------------------------------
(* Program literals.                                                       *)

Greeting == "Hello, world!"

\* (0.625, 0.5) = (5/2^3, 1/2^1)
PointLiteral == <<[m |-> 5, e |-> 3], [m |-> 1, e |-> 1]>>
ExpectedLabel == "(0.625, 0.5)"

Records == << [name |-> "Palestrina", birth |-> 1525],
              [name |-> "Downland", birth |-> 1563],
              [name |-> "Lully", birth |-> 1632] >>
NoTemp == [name |-> "", birth |-> 0]
NoPoint == << >>

\* println!("{}, born {}", composer.name, composer.birth)
RecordLine(c) == c.name \o ", born " \o DisplayI32(c.birth)

------------------------------------------------------------------------------
(* Ownership.  `owns` is the set of edges <<owner, value>>; an owner is a  *)
(* variable, or a value that holds other values.  `borrows` holds the      *)
(* non-owning references <<borrower, value>>.                              *)

NameIds == <<"name1", "name2", "name3">>
PersonIds == <<"person1", "person2", "person3">>
Values == {"pair", "labelText", "vec", "padovanVec"}
              \cup {NameIds[k] : k \in 1..3} \cup {PersonIds[k] : k \in 1..3}
VarNames == {"point", "label", "composers", "padovan", "temp"}

RECURSIVE Reach(_, _, _)
Reach(ow, frontier, seen) ==
    IF frontier = {} THEN seen
    ELSE LET kids == {e[2] : e \in {x \in ow : x[1] \in frontier}}
         IN Reach(ow, kids \ seen, seen \cup kids)

\* Defective drop: only the values the root holds directly.
OwnedShallow(ow, root) == {e[2] : e \in {x \in ow : x[1] = root}}

\* Everything owned, directly or through other values, by `root`.
Owned(ow, root) == Reach(ow, {root}, {})

\* Defective move: the old owner keeps the value (a copy of the handle).
MoveCopy(ow, v, from, to) == ow \cup {<<to, v>>}

\* A move: the value leaves one owner and gets another.
Move(ow, v, from, to) == (ow \ {<<from, v>>}) \cup {<<to, v>>}

\* Dropping a variable releases every value of its tree.
DropCount(d, gone) == [v \in Values |-> IF v \in gone THEN d[v] + 1 ELSE d[v]]
DropEdges(ow, gone) == {e \in ow : e[2] \notin gone}

------------------------------------------------------------------------------
(* main                                                                    *)

Goto(r, l) == pc' = [pc EXCEPT ![r] = l]

InitCommon ==
    /\ out = [r \in Runs |-> << >>]
    /\ point = [r \in Runs |-> NoPoint]
    /\ label = [r \in Runs |-> ""]
    /\ composers = [r \in Runs |-> << >>]
    /\ temp = [r \in Runs |-> NoTemp]
    /\ iter = [r \in Runs |-> 0]
    /\ owns = [r \in Runs |-> {}]
    /\ borrows = [r \in Runs |-> {}]
    /\ alloc = [r \in Runs |-> {}]
    /\ drops = [r \in Runs |-> [v \in Values |-> 0]]
    /\ padovan = [r \in Runs |-> << >>]
    /\ rng = [r \in Runs |-> 0]
    /\ i = [r \in Runs |-> 0]
    /\ next = [r \in Runs |-> 0]
    /\ iters = [r \in Runs |-> 0]

\* Each run starts at the top of main, linked against the standard formatter.
Init ==
    /\ InitCommon
    /\ pc = [r \in Runs |-> "greet"]
    /\ fmt = [r \in Runs |-> "std"]

\* Defective greeting: the line is written twice.
GreetTwice(r) ==
    /\ pc[r] = "greet"
    /\ out' = [out EXCEPT ![r] = Append(Append(@, Greeting), Greeting)]
    /\ Goto(r, "box_new")
    /\ UNCHANGED <<fmt, mainVars, heapVars, padVars>>

\* Defective greeting: a flag shared by the runs lets only the first of them
\* write the line.
GreetOnce(r) ==
    /\ pc[r] = "greet"
    /\ out' = [out EXCEPT ![r] =
                 IF \E q \in Runs : out[q] # << >> THEN @ ELSE Append(@, Greeting)]
    /\ Goto(r, "box_new")
    /\ UNCHANGED <<fmt, mainVars, heapVars, padVars>>

\* println!("Hello, world!")
Greet(r) ==
    /\ pc[r] = "greet"
    /\ out' = [out EXCEPT ![r] = Append(@, Greeting)]
    /\ Goto(r, "box_new")
    /\ UNCHANGED <<fmt, mainVars, heapVars, padVars>>

\* let point = Box::new((0.625, 0.5))
BoxNew(r) ==
    /\ pc[r] = "box_new"
    /\ point' = [point EXCEPT ![r] = PointLiteral]
    /\ alloc' = [alloc EXCEPT ![r] = @ \cup {"pair"}]
    /\ owns' = [owns EXCEPT ![r] = @ \cup {<<"point", "pair">>}]
    /\ Goto(r, "format")
    /\ UNCHANGED <<out, fmt, label, composers, temp, iter, borrows, drops, padVars>>

\* let label = format!("{:?}", point): point is only borrowed for the call.
Format(r) ==
    /\ pc[r] = "format"
    /\ label' = [label EXCEPT ![r] = DebugPair(fmt[r], point[r])]
    /\ alloc' = [alloc EXCEPT ![r] = @ \cup {"labelText"}]
    /\ owns' = [owns EXCEPT ![r] = @ \cup {<<"label", "labelText">>}]
    /\ Goto(r, "assert")
    /\ UNCHANGED <<out, fmt, point, composers, temp, iter, borrows, drops, padVars>>

\* A panic unwinds: the locals declared so far are dropped in reverse order
\* and the run ends without reaching the end of main.
Unwind(r, locals) ==
    LET gone == UNION {Owned(owns[r], x) : x \in locals}
    IN /\ drops' = [drops EXCEPT ![r] = DropCount(@, gone)]
       /\ owns' = [owns EXCEPT ![r] = DropEdges(@, gone)]
       /\ borrows' = [borrows EXCEPT ![r] = {}]
       /\ Goto(r, "panicked")

\* Defective assertion: assert_ne! in place of assert_eq!.
AssertNe(r) ==
    /\ pc[r] = "assert"
    /\ IF label[r] # ExpectedLabel
       THEN /\ Goto(r, "vec_new")
            /\ UNCHANGED <<owns, borrows, drops>>
       ELSE Unwind(r, {"label", "point"})
    /\ UNCHANGED <<out, fmt, mainVars, alloc, padVars>>

\* Defective assertion: the comparison is compiled out and the run goes on.
AssertSkipped(r) ==
    /\ pc[r] = "assert"
    /\ Goto(r, "vec_new")
    /\ UNCHANGED <<out, fmt, mainVars, heapVars, padVars>>

\* assert_eq!(label, "(0.625, 0.5)")
AssertEq(r) ==
    /\ pc[r] = "assert"
    /\ IF label[r] = ExpectedLabel
       THEN /\ Goto(r, "vec_new")
            /\ UNCHANGED <<owns, borrows, drops>>
       ELSE Unwind(r, {"label", "point"})
    /\ UNCHANGED <<out, fmt, mainVars, alloc, padVars>>

\* let mut composers = Vec::new()
VecNew(r) ==
    /\ pc[r] = "vec_new"
    /\ composers' = [composers EXCEPT ![r] = << >>]
    /\ alloc' = [alloc EXCEPT ![r] = @ \cup {"vec"}]
    /\ owns' = [owns EXCEPT ![r] = @ \cup {<<"composers", "vec">>}]
    /\ Goto(r, "to_string")
    /\ UNCHANGED <<out, fmt, point, label, temp, iter, borrows, drops, padVars>>

\* The record the next push statement builds (lines 34, 35, 36 in turn).
NextRecord(r) == Len(composers[r]) + 1

\* "<name>".to_string(): a fresh String, held by a temporary.
ToOwnedString(r) ==
    LET k == NextRecord(r)
    IN /\ pc[r] = "to_string"
       /\ temp' = [temp EXCEPT ![r] = [name |-> Records[k].name, birth |-> 0]]
       /\ alloc' = [alloc EXCEPT ![r] = @ \cup {NameIds[k]}]
       /\ owns' = [owns EXCEPT ![r] = @ \cup {<<"temp", NameIds[k]>>}]
       /\ Goto(r, "make_person")
       /\ UNCHANGED <<out, fmt, point, label, composers, iter, borrows, drops, padVars>>

\* Person { name: .., birth: .. }: the String moves into the struct.
MakePerson(r) ==
    LET k == NextRecord(r)
    IN /\ pc[r] = "make_person"
       /\ temp' = [temp EXCEPT ![r] = [name |-> @.name, birth |-> Records[k].birth]]
       /\ alloc' = [alloc EXCEPT ![r] = @ \cup {PersonIds[k]}]
       /\ owns' = [owns EXCEPT ![r] =
                     Move(@, NameIds[k], "temp", PersonIds[k])
                         \cup {<<"temp", PersonIds[k]>>}]
       /\ Goto(r, "push")
       /\ UNCHANGED <<out, fmt, point, label, composers, iter, borrows, drops, padVars>>

\* Defective push: the struct is inserted at the front of the vector.
PushFront(r) ==
    LET k == NextRecord(r)
    IN /\ pc[r] = "push"
       /\ composers' = [composers EXCEPT ![r] = <<temp[r]>> \o @]
       /\ temp' = [temp EXCEPT ![r] = NoTemp]
       /\ owns' = [owns EXCEPT ![r] = Move(@, PersonIds[k], "temp", "vec")]
       /\ Goto(r, IF k = Len(Records) THEN "into_iter" ELSE "to_string")
       /\ UNCHANGED <<out, fmt, point, label, iter, borrows, alloc, drops, padVars>>

\* composers.push(..): the struct moves into the vector.
Push(r) ==
    LET k == NextRecord(r)
    IN /\ pc[r] = "push"
       /\ composers' = [composers EXCEPT ![r] = Append(@, temp[r])]
       /\ temp' = [temp EXCEPT ![r] = NoTemp]
       /\ owns' = [owns EXCEPT ![r] = Move(@, PersonIds[k], "temp", "vec")]
       /\ Goto(r, IF k = Len(Records) THEN "into_iter" ELSE "to_string")
       /\ UNCHANGED <<out, fmt, point, label, iter, borrows, alloc, drops, padVars>>

\* for composer in &composers: the iterator borrows the vector.
IntoIter(r) ==
    /\ pc[r] = "into_iter"
    /\ iter' = [iter EXCEPT ![r] = 0]
    /\ borrows' = [borrows EXCEPT ![r] = {<<"iter", "vec">>}]
    /\ Goto(r, "for_next")
    /\ UNCHANGED <<out, fmt, point, label, composers, temp, owns, alloc, drops, padVars>>

\* Iterator::next on the slice iterator: the next element by reference, or
\* the end of the loop.
ForNext(r) ==
    /\ pc[r] = "for_next"
    /\ IF iter[r] < Len(composers[r])
       THEN /\ iter' = [iter EXCEPT ![r] = @ + 1]
            /\ borrows' = [borrows EXCEPT ![r] =
                             @ \cup {<<"composer", PersonIds[iter[r] + 1]>>}]
            /\ Goto(r, "print")
       ELSE /\ iter' = iter
            /\ borrows' = [borrows EXCEPT ![r] = {}]
            /\ Goto(r, "drop_composers")
    /\ UNCHANGED <<out, fmt, point, label, composers, temp, owns, alloc, drops, padVars>>

\* println!("{}, born {}", composer.name, composer.birth)
PrintComposer(r) ==
    /\ pc[r] = "print"
    /\ out' = [out EXCEPT ![r] = Append(@, RecordLine(composers[r][iter[r]]))]
    /\ borrows' = [borrows EXCEPT ![r] = {b \in @ : b[1] # "composer"}]
    /\ Goto(r, "for_next")
    /\ UNCHANGED <<fmt, mainVars, owns, alloc, drops, padVars>>

\* End of main: the locals are dropped in reverse order of declaration,
\* composers, then label, then point, each with everything it owns.
DropLocal(r, var) ==
    LET gone == Owned(owns[r], var)
    IN /\ drops' = [drops EXCEPT ![r] = DropCount(@, gone)]
       /\ owns' = [owns EXCEPT ![r] = DropEdges(@, gone)]

DropComposers(r) ==
    /\ pc[r] = "drop_composers"
    /\ DropLocal(r, "composers")
    /\ composers' = [composers EXCEPT ![r] = << >>]
    /\ Goto(r, "drop_label")
    /\ UNCHANGED <<out, fmt, point, label, temp, iter, borrows, alloc, padVars>>

DropLabel(r) ==
    /\ pc[r] = "drop_label"
    /\ DropLocal(r, "label")
    /\ label' = [label EXCEPT ![r] = ""]
    /\ Goto(r, "drop_point")
    /\ UNCHANGED <<out, fmt, point, composers, temp, iter, borrows, alloc, padVars>>

DropPoint(r) ==
    /\ pc[r] = "drop_point"
    /\ DropLocal(r, "point")
    /\ point' = [point EXCEPT ![r] = NoPoint]
    /\ Goto(r, "done")
    /\ UNCHANGED <<out, fmt, label, composers, temp, iter, borrows, alloc, padVars>>

Next ==
    \/ \E r \in Runs : Greet(r)
    \/ \E r \in Runs : BoxNew(r)
    \/ \E r \in Runs : Format(r)
    \/ \E r \in Runs : AssertEq(r)
    \/ \E r \in Runs : VecNew(r)
    \/ \E r \in Runs : ToOwnedString(r)
    \/ \E r \in Runs : MakePerson(r)
    \/ \E r \in Runs : Push(r)
    \/ \E r \in Runs : IntoIter(r)
    \/ \E r \in Runs : ForNext(r)
    \/ \E r \in Runs : PrintComposer(r)
    \/ \E r \in Runs : DropComposers(r)
    \/ \E r \in Runs : DropLabel(r)
    \/ \E r \in Runs : DropPoint(r)

Spec == Init /\ [][Next]_vars

\* A run linked against any of the formatters: the assertion of line 27 can
\* fail only here.
InitFmt ==
    /\ InitCommon
    /\ pc = [r \in Runs |-> "greet"]
    /\ fmt \in [Runs -> Formatters]

SpecFmt == InitFmt /\ [][Next]_vars

\* The processes are scheduled: while some run can step, a step is taken.
\* Every run is finite, so no run is left behind for ever.
Fairness == WF_vars(Next)
FairSpecFmt == InitFmt /\ [][Next]_vars /\ Fairness

------------------------------------------------------------------------------
(* print_padovan                                                           *)

PadovanSeed == <<1, 1, 1>>
LoopStart == 3
LoopEnd == 10
I32Max == 2147483647
I32Min == 0 - I32Max - 1

\* v[idx] on a Vec: idx is a usize, the access is bounds-checked.
InBounds(s, idx) == idx >= 0 /\ idx < Len(s)
At(s, idx) == s[idx + 1]

\* Defective index: the second read is off by one.
IndexBOff(n) == n - 1

\* The two reads of line 15.
IndexA(n) == n - 3
IndexB(n) == n - 2

\* i32 addition: whether a + b leaves the 32-bit range, and the sum wrapped
\* to 32 bits (the result of a release build).
AddOverflows(a, b) ==
    \/ b > 0 /\ a > I32Max - b
    \/ b < 0 /\ a < I32Min - b
WrappingAdd(a, b) ==
    IF b > 0 /\ a > I32Max - b THEN (((a - I32Max) - 1) + b) - I32Max - 1
    ELSE IF b < 0 /\ a < I32Min - b THEN (((a + I32Max) + 1) + b) + I32Max + 1
    ELSE a + b

\* Each call starts at the top of print_padovan.
InitPadovan ==
    /\ InitCommon
    /\ pc = [r \in Runs |-> "pad_entry"]
    /\ fmt = [r \in Runs |-> "std"]

\* let mut padovan = vec![1,1,1]
PadAlloc(r) ==
    /\ pc[r] = "pad_entry"
    /\ padovan' = [padovan EXCEPT ![r] = PadovanSeed]
    /\ alloc' = [alloc EXCEPT ![r] = @ \cup {"padovanVec"}]
    /\ owns' = [owns EXCEPT ![r] = @ \cup {<<"padovan", "padovanVec">>}]
    /\ Goto(r, "pad_range")
    /\ UNCHANGED <<out, fmt, mainVars, borrows, drops, rng, i, next, iters>>

\* 3..10
PadRange(r) ==
    /\ pc[r] = "pad_range"
    /\ rng' = [rng EXCEPT ![r] = LoopStart]
    /\ Goto(r, "pad_for")
    /\ UNCHANGED <<out, fmt, mainVars, heapVars, padovan, i, next, iters>>

\* Range::next: yields the start of the range and advances it, or ends the
\* loop at the end of the range.
PadForNext(r) ==
    /\ pc[r] = "pad_for"
    /\ IF rng[r] < LoopEnd
       THEN /\ i' = [i EXCEPT ![r] = rng[r]]
            /\ rng' = [rng EXCEPT ![r] = @ + 1]
            /\ Goto(r, "pad_read")
       ELSE /\ UNCHANGED <<i, rng>>
            /\ Goto(r, "pad_print")
    /\ UNCHANGED <<out, fmt, mainVars, heapVars, padovan, next, iters>>

\* let next = padovan[i-3] + padovan[i-2]: an index out of bounds panics;
\* an i32 overflow panics (debug build) or wraps (release build).
PadRead(r) ==
    /\ pc[r] = "pad_read"
    /\ IF InBounds(padovan[r], IndexA(i[r])) /\ InBounds(padovan[r], IndexB(i[r]))
       THEN LET a == At(padovan[r], IndexA(i[r]))
                b == At(padovan[r], IndexB(i[r]))
            IN IF ~AddOverflows(a, b)
               THEN /\ next' = [next EXCEPT ![r] = a + b]
                    /\ Goto(r, "pad_push")
                    /\ UNCHANGED <<owns, borrows, drops>>
               ELSE \/ /\ next' = [next EXCEPT ![r] = WrappingAdd(a, b)]
                       /\ Goto(r, "pad_push")
                       /\ UNCHANGED <<owns, borrows, drops>>
                    \/ /\ next' = next
                       /\ Unwind(r, {"padovan"})
       ELSE /\ next' = next
            /\ Unwind(r, {"padovan"})
    /\ UNCHANGED <<out, fmt, mainVars, alloc, padovan, rng, i, iters>>

\* Defective push: the last element is overwritten, nothing is appended.
PadPushOverwrite(r) ==
    /\ pc[r] = "pad_push"
    /\ padovan' = [padovan EXCEPT ![r] = [@ EXCEPT ![Len(@)] = next[r]]]
    /\ iters' = [iters EXCEPT ![r] = @ + 1]
    /\ Goto(r, "pad_for")
    /\ UNCHANGED <<out, fmt, mainVars, heapVars, rng, i, next>>

\* padovan.push(next)
PadPush(r) ==
    /\ pc[r] = "pad_push"
    /\ padovan' = [padovan EXCEPT ![r] = Append(@, next[r])]
    /\ iters' = [iters EXCEPT ![r] = @ + 1]
    /\ Goto(r, "pad_for")
    /\ UNCHANGED <<out, fmt, mainVars, heapVars, rng, i, next>>

\* println!("P(1..10) = {:?}", padovan)
PadPrint(r) ==
    /\ pc[r] = "pad_print"
    /\ out' = [out EXCEPT ![r] = Append(@, "P(1..10) = " \o DebugVecI32(padovan[r]))]
    /\ Goto(r, "pad_drop")
    /\ UNCHANGED <<fmt, mainVars, heapVars, padVars>>

\* End of print_padovan: padovan is dropped.
PadDrop(r) ==
    /\ pc[r] = "pad_drop"
    /\ DropLocal(r, "padovan")
    /\ padovan' = [padovan EXCEPT ![r] = << >>]
    /\ Goto(r, "pad_ret")
    /\ UNCHANGED <<out, fmt, mainVars, borrows, alloc, rng, i, next, iters>>

NextPadovan ==
    \/ \E r \in Runs : PadAlloc(r)
    \/ \E r \in Runs : PadRange(r)
    \/ \E r \in Runs : PadForNext(r)
    \/ \E r \in Runs : PadRead(r)
    \/ \E r \in Runs : PadPush(r)
    \/ \E r \in Runs : PadPrint(r)
    \/ \E r \in Runs : PadDrop(r)

SpecPadovan == InitPadovan /\ [][NextPadovan]_vars

------------------------------------------------------------------------------
(* Properties                                                              *)

IsPrefix(a, b) == Len(a) <= Len(b) /\ SubSeq(b, 1, Len(a)) = a

BeforeAssert == {"box_new", "format", "assert"}
AfterLoop == {"drop_composers", "drop_label", "drop_point", "done"}
MainValues == Values \ {"padovanVec"}

RecordLines == <<"Palestrina, born 1525", "Downland, born 1563", "Lully, born 1632">>
PadovanLine == "P(1..10) = [1, 1, 1, 2, 2, 3, 4, 5, 7, 9]"

\* C1 as stated: a finished run of main has written exactly five lines, the
\* greeting, the dump of the numeric sequence, and the three record lines.
C1_FiveLines ==
    \A r \in Runs :
        pc[r] = "done" => out[r] = <<Greeting, PadovanLine>> \o RecordLines

\* C1 amended: main performs the greeting, the pair-rendering assertion and
\* the record lines in this order and writes exactly four lines, the greeting
\* then the three record lines; print_padovan is never called, so no numeric
\* sequence is built and no dump is written.
C1_FourLines ==
    \A r \in Runs :
        /\ IsPrefix(out[r], <<Greeting>> \o RecordLines)
        /\ pc[r] = "greet" => out[r] = << >>
        /\ pc[r] \in BeforeAssert => out[r] = <<Greeting>>
        /\ Len(out[r]) > 1 => pc[r] \in {"for_next", "print"} \cup AfterLoop
        /\ pc[r] = "done" => out[r] = <<Greeting>> \o RecordLines
        /\ padovan[r] = << >> /\ "padovanVec" \notin alloc[r]

C1_Witness == \E r \in Runs : pc[r] = "done" /\ Len(out[r]) = 4

\* C2: when the loop of print_padovan has finished, the sequence has length
\* 10, each element 3..9 is the sum of the elements three and two places
\* before it, and the contents are [1,1,1,2,2,3,4,5,7,9].
C2_PadovanFinal ==
    \A r \in Runs :
        pc[r] \in {"pad_print", "pad_drop"} =>
            /\ Len(padovan[r]) = 10
            /\ \A n \in 3..9 :
                   At(padovan[r], n) = At(padovan[r], n - 3) + At(padovan[r], n - 2)
            /\ padovan[r] = <<1, 1, 1, 2, 2, 3, 4, 5, 7, 9>>

C2_Witness == \E r \in Runs : pc[r] = "pad_print" /\ Len(padovan[r]) = 10

\* C3: after the three pushes the print loop writes exactly three lines, one
\* per record in insertion order, each of the form "<name>, born <year>";
\* none is skipped, repeated or reordered.
C3_RecordLines ==
    \A r \in Runs :
        /\ pc[r] \in {"into_iter", "for_next", "print"} \cup AfterLoop =>
               IsPrefix(Tail(out[r]), RecordLines)
        /\ pc[r] = "for_next" => Len(out[r]) = 1 + iter[r]
        /\ pc[r] = "print" => Len(out[r]) = iter[r]
        /\ pc[r] \in AfterLoop => Tail(out[r]) = RecordLines
        /\ pc[r] \in {"into_iter", "for_next", "print"} =>
               /\ Len(composers[r]) = 3
               /\ \A k \in 1..3 : composers[r][k] = Records[k]

C3_Witness ==
    \E r \in Runs : pc[r] = "drop_composers" /\ Tail(out[r]) = RecordLines

\* Whether the assertion of line 27 holds in run r.
AssertionHolds(r) == DebugPair(fmt[r], PointLiteral) = ExpectedLabel

\* C4: in every run where the assertion holds the greeting is the first
\* line written and the run eventually terminates normally; it neither
\* aborts nor loops forever.
C4_GreetingThenDone ==
    /\ [](\A r \in Runs : pc[r] # "greet" => Len(out[r]) >= 1 /\ out[r][1] = Greeting)
    /\ [](\A r \in Runs : AssertionHolds(r) => pc[r] # "panicked")
    /\ <>(\A r \in Runs : AssertionHolds(r) => pc[r] = "done")
    /\ [][\A r \in Runs : pc[r] = "done" => pc'[r] = "done"]_vars

C4_Witness ==
    \E r \in Runs : AssertionHolds(r) /\ pc[r] = "done" /\ out[r][1] = Greeting

\* C5: when main returns, every value constructed during the run has been
\* released exactly once, none is leaked and none released twice; releasing
\* the composers root releases every record and every name string it owns.
C5_ReleasedOnce ==
    \A r \in Runs :
        /\ \A v \in Values : drops[r][v] <= 1
        /\ \A v \in Values \ alloc[r] : drops[r][v] = 0
        /\ pc[r] = "done" =>
               /\ alloc[r] = MainValues
               /\ \A v \in alloc[r] : drops[r][v] = 1
               /\ owns[r] = {}
        /\ pc[r] = "drop_label" =>
               /\ \A v \in MainValues \ {"pair", "labelText"} : drops[r][v] = 1
               /\ drops[r]["pair"] = 0 /\ drops[r]["labelText"] = 0

C5_Witness ==
    \E r \in Runs : pc[r] = "done" /\ \A v \in MainValues : drops[r][v] = 1

Live(r) == {v \in alloc[r] : drops[r][v] = 0}
OwnersOf(r, v) == {e[1] : e \in {x \in owns[r] : x[2] = v}}

\* C6: at every point of a run each live value has exactly one owner, the
\* owner is a variable or a live value, and every live value hangs under a
\* variable (the ownership relation is a forest); the references taken while
\* the composers sequence is iterated own nothing.
C6_SingleOwner ==
    \A r \in Runs :
        /\ \A v \in Live(r) :
               /\ Cardinality(OwnersOf(r, v)) = 1
               /\ OwnersOf(r, v) \subseteq VarNames \cup Live(r)
        /\ Live(r) = UNION {Owned(owns[r], x) : x \in VarNames}
        /\ \A e \in owns[r] : e[2] \in Live(r)
        /\ \A b \in borrows[r] :
               /\ b[2] \in Live(r)
               /\ b[1] \notin {e[1] : e \in owns[r]}

C6_Witness ==
    \E r \in Runs :
        /\ pc[r] = "print"
        /\ <<"composer", "person2">> \in borrows[r]
        /\ Cardinality(Live(r)) = 9

Terminal(r) == pc[r] \in {"done", "panicked"}

\* C7: two runs started from the same initial state write the same lines and
\* end with the same status: at any moment the output of one is a prefix of
\* the output of the other, and two finished runs agree on both.
C7_SameOutput ==
    \A r1, r2 \in Runs :
        /\ IsPrefix(out[r1], out[r2]) \/ IsPrefix(out[r2], out[r1])
        /\ Len(out[r1]) = Len(out[r2]) => out[r1] = out[r2]
        /\ Terminal(r1) /\ Terminal(r2) => pc[r1] = pc[r2] /\ out[r1] = out[r2]

C7_Witness ==
    \E r1, r2 \in Runs :
        r1 # r2 /\ pc[r1] = "done" /\ pc[r2] = "done" /\ Len(out[r1]) = 4

\* C8: the debug rendering of the boxed pair (0.625, 0.5) is exactly
\* "(0.625, 0.5)", so the assert_eq of main never fails.
C8_LabelText ==
    \A r \in Runs :
        /\ pc[r] \in {"assert", "vec_new"} => label[r] = "(0.625, 0.5)"
        /\ pc[r] # "panicked"

C8_Witness == \E r \in Runs : pc[r] = "vec_new" /\ label[r] = "(0.625, 0.5)"

\* C9: a failed assertion aborts the run at that point: the run never
\* terminates normally, writes no record line afterwards and is not retried;
\* no other step of main aborts a run.
C9_AbortOnlyAtAssert ==
    /\ [](\A r \in Runs :
            /\ pc[r] = "panicked" => out[r] = <<Greeting>> /\ ~AssertionHolds(r)
            /\ pc[r] \notin {"greet", "panicked"} \cup BeforeAssert => AssertionHolds(r))
    /\ [][\A r \in Runs :
            /\ (pc[r] = "assert" /\ pc'[r] # "assert" /\ label[r] # ExpectedLabel)
                   => pc'[r] = "panicked" /\ out'[r] = out[r]
            /\ pc[r] = "panicked" => pc'[r] = "panicked" /\ out'[r] = out[r]
            /\ (pc'[r] = "panicked" /\ pc[r] # "panicked") => pc[r] = "assert"]_vars

C9_Witness ==
    \E r \in Runs : pc[r] = "panicked" /\ out[r] = <<Greeting>> /\ label[r] # ExpectedLabel

\* C10: at the start of each iteration of the loop of print_padovan, with
\* index i in 3..9, the sequence has length i, so both reads are in bounds
\* and no abort is reachable; the body runs exactly 7 times, and each
\* iteration appends exactly one element and changes no earlier one.
C10_LoopInvariant ==
    /\ [](\A r \in Runs :
            /\ pc[r] = "pad_read" =>
                   /\ i[r] \in 3..9
                   /\ Len(padovan[r]) = i[r]
                   /\ iters[r] = i[r] - 3
                   /\ InBounds(padovan[r], i[r] - 3) /\ InBounds(padovan[r], i[r] - 2)
            /\ pc[r] # "panicked"
            /\ pc[r] \in {"pad_print", "pad_drop", "pad_ret"} => iters[r] = 7)
    /\ [][\A r \in Runs :
            (pc[r] = "pad_push" /\ pc'[r] # "pad_push") =>
                /\ Len(padovan'[r]) = Len(padovan[r]) + 1
                /\ SubSeq(padovan'[r], 1, Len(padovan[r])) = padovan[r]]_vars

C10_Witness ==
    \E r \in Runs : pc[r] = "pad_read" /\ i[r] = 9 /\ Len(padovan[r]) = 9

====
